---- MODULE Spec2Model ----
(***************************************************************************)
(* L{CORE} RISC Zero proof verifier side-car: the poll loop of main.rs,    *)
(* the GraphQL discovery client with its retry loop, the artifact fetch,   *)
(* ProofVerifier::verify_proof, ReceiptSigner::sign_receipt and the        *)
(* InputBox submission client.                                             *)
(*                                                                         *)
(* Strings are sequences of byte values (String::as_bytes), so that        *)
(* starts_with, contains, hex::encode and the canonical encoding that is   *)
(* hashed for signing are computed the way the code computes them.         *)
(***************************************************************************)
EXTENDS Integers, Sequences, FiniteSets, TLC

VARIABLES
    allowed_image_ids, \* ProofVerifier.allowed_image_ids (Vec<String>)
    signer,            \* ReceiptSigner {signing_key, address}
    proc,              \* the process: "running" | "exited" (tokio::select! in main)
    pc,                \* position of the poll loop task
    attempt,           \* execute_with_retry: the loop variable `attempt`
    last_error,        \* execute_with_retry: `last_error`
    outcomes,          \* history: outcome of every attempt of the current call
    sleeps,            \* history: the delays slept by the current call
    inflight,          \* the network call awaited: [call, url, timeout]
    requests,          \* process_proof_requests: `requests`
    idx,               \* position of the for loop over `requests` (1-based)
    processed,         \* process_proof_requests: `processed`
    entered,           \* history: calls of process_single_request in this batch
    result,            \* what process_proof_requests returned last
    receipt_bytes,     \* process_single_request: `receipt_bytes`
    receipt,           \* process_single_request: `receipt` (VerifiedProof)
    attestation,       \* process_single_request: `verified_receipt` / `signed_receipt`
    failure,           \* the error process_single_request returned, until it is logged
    lab,               \* test bench of the signer (tests of receipt_signer.rs)
                       \* of the allow-list (last edit of the list) and
                       \* of the InputBox client (client built, probe made)
    queried,           \* history: the notices query_proof_requests got and what
                       \* it returned, until the batch starts or the next tick
    sent               \* history: the HTTP requests sent for the current request

vars == <<allowed_image_ids, signer, proc, pc, attempt, last_error, outcomes,
          sleeps, inflight, requests, idx, processed, entered, result,
          receipt_bytes, receipt, attestation, failure, lab,
          queried, sent>>

(***************************************************************************)
(* Bounds of the model.                                                    *)
(***************************************************************************)
MaxNotices == 2        \* notices in one discovery response

(***************************************************************************)
(* Program constants.                                                      *)
(***************************************************************************)
max_retries == 3                   \* GraphQLClient::new
retry_delay == 2                   \* seconds
request_timeout == 30              \* seconds, tokio timeout of one attempt
client_timeout == 30               \* seconds, reqwest Client::builder().timeout
max_receipt_size == 10485760       \* Config::default, 10 * 1024 * 1024
recovery_v == 27                   \* sig_with_recovery[64]

None == <<"None">>
Some(x) == <<"Some", x>>

(***************************************************************************)
(* Byte strings.                                                           *)
(***************************************************************************)
S_0x == <<48,120>>                                             \* "0x"
S_placeholder == <<112,108,97,99,101,104,111,108,100,101,114>> \* "placeholder"
S_placeholder_image_id ==                                      \* "placeholder_image_id"
    <<112,108,97,99,101,104,111,108,100,101,114,95,105,109,97,103,101,95,105,100>>
S_imgA == <<105,109,103,65>>                                   \* "imgA"
S_imgB == <<105,109,103,66>>                                   \* "imgB"
S_my_placeholder_id ==                                         \* "my_placeholder_id"
    <<109,121,95,112,108,97,99,101,104,111,108,100,101,114,95,105,100>>
S_iot_validation == <<105,111,116,95,118,97,108,105,100,97,116,105,111,110>>
S_iot_privacy == <<105,111,116,95,112,114,105,118,97,99,121>>
S_iot_compute == <<105,111,116,95,99,111,109,112,117,116,101>>
S_iot_audit == <<105,111,116,95,97,117,100,105,116>>           \* an unknown tag
S_ipfs_scheme == <<105,112,102,115,58,47,47>>                  \* "ipfs://"
S_http_scheme == <<104,116,116,112,58,47,47>>                  \* "http://"
S_https_scheme == <<104,116,116,112,115,58,47,47>>             \* "https://"
S_ipfs_path == <<47,105,112,102,115,47>>                       \* "/ipfs/"
S_url_ipfs == <<105,112,102,115,58,47,47,81,109,49>>           \* "ipfs://Qm1"
S_url_https == <<104,116,116,112,115,58,47,47,104,47,114>>     \* "https://h/r"
S_url_http == <<104,116,116,112,58,47,47,104,47,114>>          \* "http://h/r"
S_url_s3 == <<115,51,58,47,47,98,47,114>>                      \* "s3://b/r"
S_ipfs_gateway == <<104,116,116,112,115,58,47,47,105,112,102,115,46,105,111>> \* "https://ipfs.io"
S_input_path == <<47,105,110,112,117,116>>                     \* "/input"
S_health_path == <<47,104,101,97,108,116,104>>                 \* "/health"
S_dev1 == <<100,101,118,49>>                                   \* "dev1"
S_dev2 == <<100,101,118,50>>                                   \* "dev2"

\* str::starts_with
StartsWith(s, p) == Len(s) >= Len(p) /\ SubSeq(s, 1, Len(p)) = p

\* str::contains
Contains(s, p) ==
    \E i \in 1..(Len(s) - Len(p) + 1) : SubSeq(s, i, i + Len(p) - 1) = p

\* str::trim_start_matches: removes every leading repetition of the prefix
RECURSIVE TrimStartMatches(_, _)
TrimStartMatches(s, p) ==
    IF Len(p) > 0 /\ StartsWith(s, p)
    THEN TrimStartMatches(SubSeq(s, Len(p) + 1, Len(s)), p)
    ELSE s

\* str::ends_with
EndsWith(s, p) == Len(s) >= Len(p) /\ SubSeq(s, Len(s) - Len(p) + 1, Len(s)) = p

\* str::trim_end_matches: removes every trailing repetition of the suffix
RECURSIVE TrimEndMatches(_, _)
TrimEndMatches(s, p) ==
    IF Len(p) > 0 /\ EndsWith(s, p)
    THEN TrimEndMatches(SubSeq(s, 1, Len(s) - Len(p)), p)
    ELSE s

\* one lower-case hex digit, as its ASCII byte
HexDigit(n) == IF n < 10 THEN 48 + n ELSE 87 + n

\* hex::encode: two digits per byte, the high nibble first
HexEncode(bytes) ==
    [i \in 1..(2 * Len(bytes)) |->
        IF i % 2 = 1 THEN HexDigit(bytes[(i + 1) \div 2] \div 16)
                     ELSE HexDigit(bytes[i \div 2] % 16)]

\* the k low-order bytes of n, least significant first
RECURSIVE LeBytes(_, _)
LeBytes(n, k) ==
    IF k = 0 THEN <<>> ELSE <<n % 256>> \o LeBytes(n \div 256, k - 1)

\* u64::to_le_bytes
U64LeBytes(n) == LeBytes(n, 8)

(***************************************************************************)
(* Library primitives (sha3, k256).  Keccak256 is a deterministic function *)
(* of the bytes it is given, with a 32-byte digest; the signature scheme   *)
(* of k256 (RFC 6979) derives its nonce from the key and the digest, and   *)
(* the recovery bit of a signature is the parity of the nonce point.       *)
(* The arithmetic is a small stand-in for the real permutation and curve.  *)
(***************************************************************************)
RECURSIVE WeightedSum(_, _, _)
WeightedSum(bytes, lo, hi) ==
    IF lo > hi THEN 0
    ELSE IF lo = hi THEN bytes[lo] * (((lo * 37) % 101) + 1)
    ELSE LET mid == (lo + hi) \div 2
         IN  WeightedSum(bytes, lo, mid) + WeightedSum(bytes, mid + 1, hi)

Absorb(h, bytes) ==
    (h + Len(bytes) * 7 + WeightedSum(bytes, 1, Len(bytes))) % 65521

Keccak256(bytes) ==
    LET h == Absorb(1, bytes)
    IN  [i \in 1..32 |-> (h \div i + h * i + i * i) % 256]

DigestSeed(digest) == Absorb(3, digest)

PublicKeyBytes(key) == [i \in 1..64 |-> (key * 7 + i * 13) % 256]

(***************************************************************************)
(* receipt_signer.rs                                                       *)
(***************************************************************************)
\* ReceiptSigner::new: the address is "0x" + hex of the last 20 bytes of
\* Keccak256(uncompressed public key without its 0x04 prefix)
DeriveAddress(key) ==
    S_0x \o HexEncode(SubSeq(Keccak256(PublicKeyBytes(key)), 13, 32))

ReceiptSigner_new(key) == [signing_key |-> key, address |-> DeriveAddress(key)]

\* ReceiptSigner::get_address
get_address(self) == self.address

\* the bytes fed to the hasher by compute_receipt_hash, in order
hasher_input(r) ==
    r.device_id \o r.proof_type \o r.receipt_hash \o r.image_id
    \o r.journal_hash \o U64LeBytes(r.epoch_index) \o U64LeBytes(r.input_index)

compute_receipt_hash(r) == Keccak256(hasher_input(r))

\* a nonce drawn from the entropy of the call instead of RFC 6979
NonceFromEntropy(key, digest) ==
    ((key * 131 + DigestSeed(digest) + lab.calls) % 251) + 1

\* the nonce of SigningKey::sign (k256 signs deterministically, RFC 6979)
Rfc6979Nonce(key, digest) == ((key * 131 + DigestSeed(digest)) % 251) + 1

\* SigningKey::sign: r and s of 32 bytes each; recovery_bit is the parity of
\* the nonce point, which the plain Signature type does not carry
EcdsaSign(key, digest) ==
    LET k == Rfc6979Nonce(key, digest)
        z == DigestSeed(digest)
    IN  [r |-> [i \in 1..32 |-> (k * 17 + i) % 256],
         s |-> [i \in 1..32 |-> (k * 29 + key * 3 + z + i * 5) % 256],
         recovery_bit |-> k % 2]

\* sign_receipt, lines 53-56: the address is set only when it is absent
with_verifier_address(self, r) ==
    IF r.verifier_address = None
    THEN [r EXCEPT !.verifier_address = Some(self.address)]
    ELSE r

\* the Signature produced at line 62 of sign_receipt
signature_of(self, r) ==
    EcdsaSign(self.signing_key, compute_receipt_hash(with_verifier_address(self, r)))

\* the byte written at sig_with_recovery[64]
recovery_indicator(sig) == recovery_v

\* the 64 bytes of the Signature are encoded without a recovery byte
sign_receipt_compact(self, r) ==
    LET r1 == with_verifier_address(self, r)
        signature == signature_of(self, r)
        signature_bytes == signature.r \o signature.s
    IN  [r1 EXCEPT !.signature = S_0x \o HexEncode(signature_bytes)]

\* ReceiptSigner::sign_receipt (it has no error path)
sign_receipt(self, r) ==
    LET r1 == with_verifier_address(self, r)
        signature == signature_of(self, r)
        signature_bytes == signature.r \o signature.s
        sig_with_recovery == signature_bytes \o <<recovery_indicator(signature)>>
    IN  [r1 EXCEPT !.signature = S_0x \o HexEncode(sig_with_recovery)]

(***************************************************************************)
(* proof_verifier.rs                                                       *)
(*                                                                         *)
(* The bytes of an artifact are [size, body]: size is their length, body   *)
(* is what bincode makes of them, Garbage when they are no Receipt.  A     *)
(* Receipt is [claim, journal, seal_valid]: claim is None when get_claim   *)
(* fails, seal_valid is what Receipt::verify would say of the seal.        *)
(***************************************************************************)
Garbage == [garbage |-> TRUE]

Ok(v) == [ok |-> TRUE, value |-> v]
Err(kind, msg) == [ok |-> FALSE, kind |-> kind, msg |-> msg]

\* bincode::deserialize::<Receipt>
bincode_deserialize(bytes) ==
    IF bytes.body = Garbage
    THEN Err("ProofVerification", "Failed to deserialize receipt")
    ELSE Ok(bytes.body)

\* bincode::serialize(&receipt)
bincode_serialize(rc) ==
    (IF rc.claim = None THEN <<0>> ELSE <<1>> \o rc.claim[2].image_id)
    \o <<Len(rc.journal)>> \o rc.journal
    \o <<IF rc.seal_valid THEN 1 ELSE 0>>

\* Receipt::get_claim
get_claim(rc) ==
    IF rc.claim = None THEN Err("ProofVerification", "Failed to get claim")
    ELSE Ok(rc.claim[2])

\* VerifiedProof::journal_hash
journal_hash(proof) == Keccak256(proof.receipt.journal)

\* VerifiedProof::receipt_hash
receipt_hash(proof) == Keccak256(bincode_serialize(proof.receipt))

\* the allow-list test of verify_proof, line 54
image_allowed(allowed) ==
    ~ (/\ allowed # <<>>
       /\ ~ \E i \in 1..Len(allowed) : Contains(allowed[i], S_placeholder))

\* the match with a default arm that lets any other tag through
proof_type_check_lenient(rc, proof_type) ==
    IF proof_type = S_iot_validation THEN
        IF rc.journal = <<>>
        THEN Err("ProofVerification", "Validation proof has empty journal")
        ELSE Ok(TRUE)
    ELSE IF proof_type = S_iot_compute THEN
        IF rc.journal = <<>>
        THEN Err("ProofVerification", "Compute proof has empty journal")
        ELSE Ok(TRUE)
    ELSE Ok(TRUE)

\* the match on proof_type, lines 68-88
proof_type_check(rc, proof_type) ==
    IF proof_type = S_iot_validation THEN
        IF rc.journal = <<>>
        THEN Err("ProofVerification", "Validation proof has empty journal")
        ELSE Ok(TRUE)
    ELSE IF proof_type = S_iot_privacy THEN Ok(TRUE)
    ELSE IF proof_type = S_iot_compute THEN
        IF rc.journal = <<>>
        THEN Err("ProofVerification", "Compute proof has empty journal")
        ELSE Ok(TRUE)
    ELSE Err("ProofVerification", "Unknown proof type")

\* ProofVerifier::verify_proof
verify_proof(allowed, bytes, proof_type) ==
    LET de == bincode_deserialize(bytes) IN
    IF ~ de.ok THEN de ELSE
    LET rc == de.value
        claim == get_claim(rc)
    IN
    IF ~ claim.ok THEN claim
    ELSE IF ~ image_allowed(allowed)
    THEN [ok |-> FALSE, kind |-> "InvalidImageId", msg |-> "Invalid image ID",
          expected |-> allowed, actual |-> S_placeholder_image_id]
    ELSE IF rc.journal = <<>>
    THEN Err("ProofVerification", "Receipt has empty journal")
    ELSE LET pt == proof_type_check(rc, proof_type) IN
         IF ~ pt.ok THEN pt ELSE Ok([receipt |-> rc])

\* the identity is pushed whether or not the list holds it
add_allowed_image_push(allowed, image_id) == Append(allowed, image_id)

\* ProofVerifier::add_allowed_image: the allow-list after the call
add_allowed_image(allowed, image_id) ==
    IF \E i \in 1..Len(allowed) : allowed[i] = image_id
    THEN allowed
    ELSE Append(allowed, image_id)

\* ProofVerifier::remove_allowed_image: the allow-list after the call
remove_allowed_image(allowed, image_id) ==
    LET keep(id) == id # image_id IN SelectSeq(allowed, keep)

(***************************************************************************)
(* Inputs of the pipeline.                                                 *)
(***************************************************************************)
ProofTypes == {S_iot_validation, S_iot_privacy, S_iot_compute, S_iot_audit}
Urls == {S_url_ipfs, S_url_https, S_url_s3}

\* types::ProofRequest
RequestSet ==
    [device_id : {S_dev1}, proof_type : ProofTypes, receipt_url : Urls,
     expected_image_id : {S_imgA}, epoch_index : {1}, input_index : {7}]

\* the payload of a notice, by how far the decoding of query_proof_requests gets
NoticeKinds == {"bad_hex", "bad_utf8", "bad_json", "other_type", "bad_data"}
NoticeSet ==
    {[kind |-> k, data |-> None] : k \in NoticeKinds}
    \cup {[kind |-> "proof_request", data |-> Some(r)] : r \in RequestSet}

SeqsUpTo(S, n) == UNION {[1..k -> S] : k \in 0..n}

\* what a fetched body can be
Receipts ==
    [claim : {None} \cup {Some([image_id |-> i, exit_code |-> 0]) : i \in {S_imgA, S_imgB}},
     journal : {<<>>, <<1, 2>>},
     seal_valid : BOOLEAN]
Artifacts == [size : {64, max_receipt_size + 1}, body : {Garbage} \cup Receipts]

HttpStatuses == {200, 400, 404, 500, 502, 503, 504}
Clock == {1700000000, 1700000060}      \* chrono::Utc::now().timestamp()
ConfiguredKey == 5                      \* config.verifier_private_key
AllowLists == {<<S_imgA>>, <<S_placeholder_image_id>>, <<S_imgA, S_my_placeholder_id>>}

NoCall == [call |-> "none", url |-> <<>>, timeout |-> None]
S_graphql_endpoint == <<103>>           \* config.graphql_endpoint
S_inputbox_endpoint == <<105>>          \* config.inputbox_endpoint

(***************************************************************************)
(* graphql.rs                                                              *)
(***************************************************************************)
\* StatusCode::is_success
is_success(status) == status >= 200 /\ status <= 299

\* the responses a GraphQL attempt can get before its timeout, besides a
\* success: body is what the JSON of a 2xx response holds
GqlResponses ==
    {[kind |-> "transport_error", status |-> 0, body |-> "none", edges |-> <<>>]}
    \cup {[kind |-> "http", status |-> s, body |-> "text", edges |-> <<>>] :
             s \in {x \in HttpStatuses : ~ is_success(x)}}
    \cup {[kind |-> "http", status |-> 200, body |-> b, edges |-> <<>>] :
             b \in {"invalid_json", "errors", "no_data"}}

\* GraphQLClient::execute_request, on the response it got
execute_request(resp) ==
    IF resp.kind = "transport_error" THEN Err("Network", "send failed")
    ELSE IF ~ is_success(resp.status) THEN
        IF resp.status >= 502 /\ resp.status <= 504
        THEN [ok |-> FALSE, kind |-> "GraphQL", msg |-> "Server busy", status |-> resp.status]
        ELSE [ok |-> FALSE, kind |-> "GraphQL", msg |-> "HTTP error", status |-> resp.status]
    ELSE IF resp.body = "invalid_json" THEN Err("Network", "decode failed")
    ELSE IF resp.body = "errors" THEN Err("GraphQL", "errors")
    ELSE IF resp.body = "no_data" THEN Err("GraphQL", "No data in response")
    ELSE Ok(resp.edges)

\* the loop over the notices with each request put in front of the list
RECURSIVE parse_notices_lifo(_, _)
parse_notices_lifo(edges, acc) ==
    IF edges = <<>> THEN Ok(acc)
    ELSE LET n == Head(edges) IN
         IF n.kind = "bad_hex" THEN Err("Hex", "invalid hex")
         ELSE IF n.kind = "bad_utf8" THEN Err("GraphQL", "Invalid UTF-8 in payload")
         ELSE IF n.kind = "proof_request"
              THEN parse_notices_lifo(Tail(edges), <<n.data[2]>> \o acc)
              ELSE parse_notices_lifo(Tail(edges), acc)

\* the loop over data.notices.edges of query_proof_requests, lines 180-201
RECURSIVE parse_notices(_, _)
parse_notices(edges, acc) ==
    IF edges = <<>> THEN Ok(acc)
    ELSE LET n == Head(edges) IN
         IF n.kind = "bad_hex" THEN Err("Hex", "invalid hex")
         ELSE IF n.kind = "bad_utf8" THEN Err("GraphQL", "Invalid UTF-8 in payload")
         ELSE IF n.kind = "proof_request"
              THEN parse_notices(Tail(edges), Append(acc, n.data[2]))
              ELSE parse_notices(Tail(edges), acc)

(***************************************************************************)
(* main.rs: the poll loop.  Positions of the task (pc):                    *)
(*   tick         poll_interval.tick().await                               *)
(*   gql_attempt  top of the retry loop of execute_with_retry              *)
(*   gql_call     timeout(request_timeout, execute_request).await          *)
(*   gql_sleep    sleep(delay).await                                       *)
(*   gql_ok       execute_with_retry returned Ok to query_proof_requests   *)
(*   queried      query_proof_requests returned to process_proof_requests  *)
(*   fetch        top of process_single_request for requests[idx]          *)
(*   fetch_wait   reqwest::get(..).await / response.bytes().await          *)
(*   verify       receipt_bytes in hand, before verify_proof               *)
(*   sign         proof verified, before the attestation is built          *)
(*   submit       attestation signed, before submit_verified_receipt       *)
(*   submit_wait  client.post(..).send().await / response.json().await     *)
(*   failed       process_single_request returned Err, before the warn!    *)
(***************************************************************************)
Running == proc = "running"

req == requests[idx]

ClearRequestLocals ==
    /\ receipt_bytes' = None
    /\ receipt' = None
    /\ attestation' = None
    /\ failure' = None
    /\ inflight' = NoCall
    /\ sent' = <<>>

\* an error of process_proof_requests leaves main with `?`: the loop is over
ReturnToMainPropagating(r) ==
    /\ result' = r
    /\ pc' = IF r.ok THEN "tick" ELSE "exited"

\* process_proof_requests returns `r` to main, which logs it and loops
ReturnToMain(r) ==
    /\ result' = r
    /\ pc' = "tick"

MaxAccepted == 2       \* ticks counted in which the tracked request was accepted

\* history of the test bench of repeated ticks (lab.phase = "ticks"): whether
\* the tracked request was submitted with success in this tick, and in how
\* many ticks it was; elsewhere the test bench is left as it is
note_accepted(ok) ==
    IF lab.phase # "ticks" THEN lab
    ELSE LET now == lab.now \/ (ok /\ req = lab.tracked) IN
         IF idx < Len(requests)
         THEN [lab EXCEPT !.now = now]
         ELSE [lab EXCEPT !.now = FALSE,
                          !.ticks_accepted =
                              IF now /\ @ < MaxAccepted THEN @ + 1 ELSE @]

\* a failure leaves the loop with `?`, as the error of process_proof_requests
FinishRequestPropagating(ok) ==
    /\ ClearRequestLocals
    /\ processed' = IF ok THEN processed + 1 ELSE processed
    /\ IF ok /\ idx < Len(requests)
       THEN /\ idx' = idx + 1
            /\ entered' = entered + 1
            /\ pc' = "fetch"
            /\ UNCHANGED result
       ELSE /\ UNCHANGED <<idx, entered>>
            /\ ReturnToMain(IF ok THEN Ok(processed') ELSE Err("Request", "failed"))
    /\ lab' = note_accepted(ok)
    /\ UNCHANGED <<allowed_image_ids, signer, proc, attempt, last_error,
                   outcomes, sleeps, requests, queried>>

\* the match of process_proof_requests, lines 134-140, and the loop step:
\* process_single_request ended with Ok (ok) or with an error
FinishRequest(ok) ==
    /\ ClearRequestLocals
    /\ processed' = IF ok THEN processed + 1 ELSE processed
    /\ IF idx < Len(requests)
       THEN /\ idx' = idx + 1
            /\ entered' = entered + 1
            /\ pc' = "fetch"
            /\ UNCHANGED result
       ELSE /\ UNCHANGED <<idx, entered>>
            /\ ReturnToMain(Ok(processed'))
    /\ lab' = note_accepted(ok)
    /\ UNCHANGED <<allowed_image_ids, signer, proc, attempt, last_error,
                   outcomes, sleeps, requests, queried>>

\* every tick starts a discovery of its own, whatever the previous one does
TickWhileBusy ==
    /\ Running
    /\ pc \in {"tick", "fetch", "fetch_wait", "verify", "sign", "submit",
               "submit_wait", "failed"}
    /\ pc' = "gql_attempt"
    /\ attempt' = 1
    /\ last_error' = None
    /\ outcomes' = <<>>
    /\ sleeps' = <<>>
    /\ requests' = <<>>
    /\ idx' = 0
    /\ processed' = 0
    /\ entered' = 0
    /\ result' = [ok |-> FALSE, kind |-> "pending", msg |-> "running"]
    /\ queried' = None
    /\ UNCHANGED <<allowed_image_ids, signer, proc, inflight,
                   receipt_bytes, receipt, attestation, failure, lab, sent>>

\* poll_interval.tick() fires: process_proof_requests starts with the query
Tick ==
    /\ Running /\ pc = "tick"
    /\ pc' = "gql_attempt"
    /\ attempt' = 1
    /\ last_error' = None
    /\ outcomes' = <<>>
    /\ sleeps' = <<>>
    /\ requests' = <<>>
    /\ idx' = 0
    /\ processed' = 0
    /\ entered' = 0
    /\ result' = [ok |-> FALSE, kind |-> "pending", msg |-> "running"]
    /\ queried' = None
    /\ UNCHANGED <<allowed_image_ids, signer, proc, inflight,
                   receipt_bytes, receipt, attestation, failure, lab, sent>>

\* execute_with_retry, line 86: one attempt is sent under the timeout
GqlSend ==
    /\ Running /\ pc = "gql_attempt"
    /\ inflight' = [call |-> "graphql", url |-> S_graphql_endpoint,
                    timeout |-> Some(request_timeout)]
    /\ pc' = "gql_call"
    /\ UNCHANGED <<allowed_image_ids, signer, proc, attempt, last_error, outcomes,
                   sleeps, requests, idx, processed, entered, result,
                   receipt_bytes, receipt, attestation, failure, lab,
                   queried, sent>>

\* the retry loop with its bound off by one: max_retries + 1 attempts
AfterFailedAttemptOneMore(e, tag) ==
    /\ last_error' = Some(e)
    /\ outcomes' = Append(outcomes, tag)
    /\ inflight' = NoCall
    /\ IF attempt < max_retries + 1
       THEN /\ sleeps' = Append(sleeps, retry_delay * attempt)
            /\ pc' = "gql_sleep"
            /\ UNCHANGED result
       ELSE /\ UNCHANGED sleeps
            /\ ReturnToMain(e)
    /\ UNCHANGED <<allowed_image_ids, signer, proc, attempt, requests, idx,
                   processed, entered, receipt_bytes, receipt, attestation, failure, lab,
                   queried, sent>>

\* an attempt answered with a 4xx status ends the call with its error
AfterFailedAttemptClientFinal(e, tag) ==
    /\ last_error' = Some(e)
    /\ outcomes' = Append(outcomes, tag)
    /\ inflight' = NoCall
    /\ IF attempt < max_retries
          /\ ~ (tag.kind = "http" /\ tag.status >= 400 /\ tag.status <= 499)
       THEN /\ sleeps' = Append(sleeps, retry_delay * attempt)
            /\ pc' = "gql_sleep"
            /\ UNCHANGED result
       ELSE /\ UNCHANGED sleeps
            /\ ReturnToMain(e)
    /\ UNCHANGED <<allowed_image_ids, signer, proc, attempt, requests, idx,
                   processed, entered, receipt_bytes, receipt, attestation, failure, lab,
                   queried, sent>>

\* the retry loop with the same delay before every attempt
AfterFailedAttemptFixedDelay(e, tag) ==
    /\ last_error' = Some(e)
    /\ outcomes' = Append(outcomes, tag)
    /\ inflight' = NoCall
    /\ IF attempt < max_retries
       THEN /\ sleeps' = Append(sleeps, retry_delay)
            /\ pc' = "gql_sleep"
            /\ UNCHANGED result
       ELSE /\ UNCHANGED sleeps
            /\ ReturnToMain(e)
    /\ UNCHANGED <<allowed_image_ids, signer, proc, attempt, requests, idx,
                   processed, entered, receipt_bytes, receipt, attestation, failure, lab,
                   queried, sent>>

\* execute_with_retry, lines 93-111: the attempt failed with `e`
AfterFailedAttempt(e, tag) ==
    /\ last_error' = Some(e)
    /\ outcomes' = Append(outcomes, tag)
    /\ inflight' = NoCall
    /\ IF attempt < max_retries
       THEN /\ sleeps' = Append(sleeps, retry_delay * attempt)
            /\ pc' = "gql_sleep"
            /\ UNCHANGED result
       ELSE /\ UNCHANGED sleeps
            /\ ReturnToMain(e)
    /\ UNCHANGED <<allowed_image_ids, signer, proc, attempt, requests, idx,
                   processed, entered, receipt_bytes, receipt, attestation, failure, lab,
                   queried, sent>>

\* the attempt got a response that execute_request turns into an error
GqlFail ==
    /\ Running /\ pc = "gql_call"
    /\ \E resp \in GqlResponses :
          AfterFailedAttempt(execute_request(resp),
                             [kind |-> resp.kind, status |-> resp.status])

\* the attempt hit request_timeout, lines 97-100
GqlTimeout ==
    /\ Running /\ pc = "gql_call"
    /\ inflight.timeout # None
    /\ AfterFailedAttempt(Err("GraphQL", "Request timeout"),
                          [kind |-> "timeout", status |-> 0])

\* sleep(delay) is over: the next iteration of the loop
GqlWake ==
    /\ Running /\ pc = "gql_sleep"
    /\ attempt' = attempt + 1
    /\ pc' = "gql_attempt"
    /\ UNCHANGED <<allowed_image_ids, signer, proc, last_error, outcomes, sleeps,
                   inflight, requests, idx, processed, entered, result,
                   receipt_bytes, receipt, attestation, failure, lab,
                   queried, sent>>

\* the attempt succeeded, lines 87-92: execute_with_retry returns Ok(result)
GqlSucceed ==
    /\ Running /\ pc = "gql_call"
    /\ outcomes' = Append(outcomes, [kind |-> "ok", status |-> 200])
    /\ inflight' = NoCall
    /\ pc' = "gql_ok"
    /\ UNCHANGED <<allowed_image_ids, signer, proc, attempt, last_error, sleeps,
                   requests, idx, processed, entered, result,
                   receipt_bytes, receipt, attestation, failure, lab,
                   queried, sent>>

\* query_proof_requests parses the notices of the response, lines 177-201,
\* and returns to process_proof_requests; the locals of execute_with_retry
\* are gone
Discovered ==
    /\ Running /\ pc = "gql_ok"
    /\ \E edges \in SeqsUpTo(NoticeSet, MaxNotices) :
          LET data == execute_request([kind |-> "http", status |-> 200,
                                       body |-> "data", edges |-> edges])
          IN  queried' = Some([edges |-> edges,
                               result |-> parse_notices(data.value, <<>>)])
    /\ pc' = "queried"
    /\ attempt' = 0
    /\ last_error' = None
    /\ outcomes' = <<>>
    /\ sleeps' = <<>>
    /\ UNCHANGED <<allowed_image_ids, signer, proc, inflight, requests, idx,
                   processed, entered, result, receipt_bytes, receipt,
                   attestation, failure, lab, sent>>

\* a request whose attestation was accepted in an earlier tick is left out
StartBatchSkippingAccepted ==
    /\ Running /\ pc = "queried"
    /\ LET r == queried[2].result
           fresh(x) == ~ (/\ lab.phase = "ticks"
                          /\ lab.ticks_accepted >= 1
                          /\ x = lab.tracked)
       IN
       IF ~ r.ok
       THEN /\ ReturnToMain(r)
            /\ UNCHANGED <<requests, idx, entered, queried>>
       ELSE IF SelectSeq(r.value, fresh) = <<>>
       THEN /\ ReturnToMain(Ok(0))
            /\ UNCHANGED <<requests, idx, entered, queried>>
       ELSE /\ requests' = SelectSeq(r.value, fresh)
            /\ idx' = 1
            /\ entered' = 1
            /\ pc' = "fetch"
            /\ queried' = None
            /\ UNCHANGED result
    /\ UNCHANGED <<allowed_image_ids, signer, proc, attempt, last_error, outcomes,
                   sleeps, inflight, processed, receipt_bytes, receipt,
                   attestation, failure, lab, sent>>

\* the batch is started whether or not there is a request in it
StartBatchUnchecked ==
    /\ Running /\ pc = "queried"
    /\ LET r == queried[2].result IN
       IF ~ r.ok
       THEN /\ ReturnToMain(r)
            /\ UNCHANGED <<requests, idx, entered, queried>>
       ELSE /\ requests' = r.value
            /\ idx' = 1
            /\ entered' = 1
            /\ pc' = "fetch"
            /\ queried' = None
            /\ UNCHANGED result
    /\ UNCHANGED <<allowed_image_ids, signer, proc, attempt, last_error, outcomes,
                   sleeps, inflight, processed, receipt_bytes, receipt,
                   attestation, failure, lab, sent>>

\* process_proof_requests, lines 123-133: the error of the query is returned
\* with `?`, an empty list returns Ok(0), otherwise the for loop starts
StartBatch ==
    /\ Running /\ pc = "queried"
    /\ LET r == queried[2].result IN
       IF ~ r.ok
       THEN /\ ReturnToMain(r)
            /\ UNCHANGED <<requests, idx, entered, queried>>
       ELSE IF r.value = <<>>
       THEN /\ ReturnToMain(Ok(0))
            /\ UNCHANGED <<requests, idx, entered, queried>>
       ELSE /\ requests' = r.value
            /\ idx' = 1
            /\ entered' = 1
            /\ pc' = "fetch"
            /\ queried' = None
            /\ UNCHANGED result
    /\ UNCHANGED <<allowed_image_ids, signer, proc, attempt, last_error, outcomes,
                   sleeps, inflight, processed, receipt_bytes, receipt,
                   attestation, failure, lab, sent>>

(***************************************************************************)
(* main.rs: process_single_request and fetch_receipt                       *)
(***************************************************************************)
\* process_single_request returns Err(e) from `stage`
Fail(stage, e) ==
    /\ failure' = Some([stage |-> stage, error |-> e])
    /\ pc' = "failed"
    /\ inflight' = NoCall
    /\ UNCHANGED <<allowed_image_ids, signer, proc, attempt, last_error, outcomes,
                   sleeps, requests, idx, processed, entered, result,
                   receipt_bytes, receipt, attestation, lab,
                   queried, sent>>

\* the request that failed is processed again from its fetch
RequestFailedRetrying ==
    /\ Running /\ pc = "failed"
    /\ pc' = "fetch"
    /\ UNCHANGED <<allowed_image_ids, signer, proc, attempt, last_error, outcomes,
                   sleeps, inflight, requests, idx, processed, entered, result,
                   receipt_bytes, receipt, attestation, failure, lab,
                   queried, sent>>

\* process_proof_requests, lines 136-139: the error is logged, the loop goes on
RequestFailed ==
    /\ Running /\ pc = "failed"
    /\ FinishRequest(FALSE)

\* a locator of any other scheme is requested as it is
fetch_target_any_scheme(url) ==
    IF StartsWith(url, S_ipfs_scheme)
    THEN Ok(S_ipfs_gateway \o S_ipfs_path \o TrimStartMatches(url, S_ipfs_scheme))
    ELSE Ok(url)

\* fetch_receipt: the URL that is requested, by the scheme of the locator
fetch_target(url) ==
    IF StartsWith(url, S_ipfs_scheme)
    THEN Ok(S_ipfs_gateway \o S_ipfs_path \o TrimStartMatches(url, S_ipfs_scheme))
    ELSE IF StartsWith(url, S_http_scheme) \/ StartsWith(url, S_https_scheme)
    THEN Ok(url)
    ELSE Err("Other", "Unsupported receipt URL scheme")

\* the timeout of the request of fetch_receipt: reqwest::get builds a default
\* client, which has none
fetch_timeout == None

\* fetch_receipt up to reqwest::get(..).await
FetchSend ==
    /\ Running /\ pc = "fetch"
    /\ LET target == fetch_target(req.receipt_url) IN
       IF target.ok
       THEN /\ inflight' = [call |-> "fetch", url |-> target.value,
                            timeout |-> fetch_timeout]
            /\ sent' = Append(sent, [call |-> "fetch", url |-> target.value])
            /\ pc' = "fetch_wait"
            /\ UNCHANGED <<allowed_image_ids, signer, proc, attempt, last_error,
                           outcomes, sleeps, requests, idx, processed, entered,
                           result, receipt_bytes, receipt, attestation, failure, lab,
                           queried>>
       ELSE Fail("fetch", target)

\* the response arrived and its body was read, lines 198-200 and 203-205:
\* whatever the status and the size, the bytes of the body are returned
FetchRespond ==
    /\ Running /\ pc = "fetch_wait"
    /\ \E status \in {200, 404}, bytes \in Artifacts :
          receipt_bytes' = Some(bytes)
    /\ pc' = "verify"
    /\ inflight' = NoCall
    /\ UNCHANGED <<allowed_image_ids, signer, proc, attempt, last_error,
                   outcomes, sleeps, requests, idx, processed, entered,
                   result, receipt, attestation, failure, lab,
                   queried, sent>>

\* reqwest::get or response.bytes() failed
FetchFail ==
    /\ Running /\ pc = "fetch_wait"
    /\ Fail("fetch", Err("Network", "get failed"))

\* process_single_request, line 160
Verify ==
    /\ Running /\ pc = "verify"
    /\ LET v == verify_proof(allowed_image_ids, receipt_bytes[2], req.proof_type) IN
       IF v.ok
       THEN /\ receipt' = Some(v.value)
            /\ pc' = "sign"
            /\ UNCHANGED <<allowed_image_ids, signer, proc, attempt, last_error,
                           outcomes, sleeps, inflight, requests, idx, processed,
                           entered, result, receipt_bytes, attestation, failure, lab,
                           queried, sent>>
       ELSE Fail("verify", v)

\* process_single_request, lines 163-177: the VerifiedReceipt that is signed
verified_receipt(request, proof, address, now) ==
    [device_id |-> request.device_id,
     proof_type |-> request.proof_type,
     receipt_hash |-> HexEncode(receipt_hash(proof)),
     image_id |-> HexEncode(request.expected_image_id),
     journal_hash |-> HexEncode(journal_hash(proof)),
     epoch_index |-> request.epoch_index,
     input_index |-> request.input_index,
     signature |-> <<>>,
     timestamp |-> Some(now),
     verifier_address |-> Some(address)]

\* process_single_request, lines 163-180
Sign ==
    /\ Running /\ pc = "sign"
    /\ \E now \in Clock :
          attestation' = Some(sign_receipt(signer,
                              verified_receipt(req, receipt[2], get_address(signer), now)))
    /\ pc' = "submit"
    /\ UNCHANGED <<allowed_image_ids, signer, proc, attempt, last_error, outcomes,
                   sleeps, inflight, requests, idx, processed, entered, result,
                   receipt_bytes, receipt, failure, lab,
                   queried, sent>>

(***************************************************************************)
(* inputbox_client.rs                                                      *)
(***************************************************************************)
\* the prefix is put in front of every address
normalize_dapp_address_prefixing(dapp_address) == S_0x \o dapp_address

\* InputBoxClient::new, lines 18-22: the address that is stored
normalize_dapp_address(dapp_address) ==
    IF StartsWith(dapp_address, S_0x) THEN dapp_address ELSE S_0x \o dapp_address

\* InputBoxClient::new; `built` is whether Client::builder().build() succeeded
InputBoxClient_new(endpoint, dapp_address, built) ==
    IF ~ built THEN Err("Network", "builder error")
    ELSE Ok([endpoint |-> endpoint,
             dapp_address |-> normalize_dapp_address(dapp_address),
             timeout |-> Some(client_timeout)])

\* the URL probed by health_check
health_url(self) == TrimEndMatches(self.endpoint, S_input_path) \o S_health_path

\* a failure of send() is handed to the caller
health_check_propagating(resp) ==
    IF resp.kind # "http" THEN Err("Network", "send failed")
    ELSE Ok(resp.status >= 200 /\ resp.status <= 299)

\* InputBoxClient::health_check, lines 87-90, on what send() returned: a
\* response, or an error (the transport failed or the client timed out)
health_check(resp) ==
    IF resp.kind # "http" THEN Ok(FALSE)
    ELSE Ok(is_success(resp.status))

SubmitResponses ==
    {[kind |-> "transport_error", status |-> 0, body |-> "none"]}
    \cup {[kind |-> "http", status |-> s, body |-> "text"] :
             s \in {x \in HttpStatuses : ~ is_success(x)}}
    \cup {[kind |-> "http", status |-> 200, body |-> b] :
             b \in {"index", "no_index", "invalid_json"}}

\* submit_verified_receipt, lines 56-80, on the response it got
submit_result(resp) ==
    IF resp.kind = "transport_error" THEN Err("InputBox", "Failed to send request")
    ELSE IF ~ is_success(resp.status)
    THEN [ok |-> FALSE, kind |-> "InputBox", msg |-> "InputBox returned error",
          status |-> resp.status]
    ELSE IF resp.body = "invalid_json" THEN Err("Network", "decode failed")
    ELSE Ok(resp.body)

\* submit_verified_receipt up to client.post(..).send().await
SubmitSend ==
    /\ Running /\ pc = "submit"
    /\ inflight' = [call |-> "inputbox", url |-> S_inputbox_endpoint,
                    timeout |-> Some(client_timeout)]
    /\ sent' = Append(sent, [call |-> "inputbox", url |-> S_inputbox_endpoint])
    /\ pc' = "submit_wait"
    /\ UNCHANGED <<allowed_image_ids, signer, proc, attempt, last_error, outcomes,
                   sleeps, requests, idx, processed, entered, result,
                   receipt_bytes, receipt, attestation, failure, lab,
                   queried>>

\* a submission answered with a server error is sent again
SubmitRespondRetrying ==
    /\ Running /\ pc = "submit_wait"
    /\ \E resp \in SubmitResponses :
          LET r == submit_result(resp) IN
          IF r.ok THEN FinishRequest(TRUE)
          ELSE IF resp.kind = "http" /\ resp.status >= 500
          THEN /\ pc' = "submit"
               /\ inflight' = NoCall
               /\ UNCHANGED <<allowed_image_ids, signer, proc, attempt, last_error,
                              outcomes, sleeps, requests, idx, processed, entered,
                              result, receipt_bytes, receipt, attestation, failure,
                              lab, queried, sent>>
          ELSE Fail("submit", r)

\* the response of the InputBox arrived, or send() failed: lines 61-80, and
\* the match of process_proof_requests on what submit_verified_receipt returned
SubmitRespond ==
    /\ Running /\ pc = "submit_wait"
    /\ \E resp \in SubmitResponses :
          LET r == submit_result(resp) IN
          IF r.ok THEN FinishRequest(TRUE) ELSE Fail("submit", r)

\* the timeout of the client ran out: send() fails
SubmitTimeout ==
    /\ Running /\ pc = "submit_wait"
    /\ inflight.timeout # None
    /\ Fail("submit", Err("InputBox", "Failed to send request: timed out"))

\* the health server ends on a task of its own and the poll loop is left as
\* it is: the process goes on without its liveness server
HealthServerStopsDetached ==
    /\ Running
    /\ proc' = "degraded"
    /\ UNCHANGED <<allowed_image_ids, signer, pc, attempt, last_error, outcomes,
                   sleeps, inflight, requests, idx, processed, entered, result,
                   receipt_bytes, receipt, attestation, failure, lab,
                   queried, sent>>

\* main, lines 81-84: the health server ends, select! completes and main
\* returns, which drops the poll loop
HealthServerStops ==
    /\ Running
    /\ proc' = "exited"
    /\ pc' = "exited"
    /\ inflight' = NoCall
    /\ attempt' = 0
    /\ last_error' = None
    /\ outcomes' = <<>>
    /\ sleeps' = <<>>
    /\ requests' = <<>>
    /\ idx' = 0
    /\ processed' = 0
    /\ entered' = 0
    /\ result' = None
    /\ receipt_bytes' = None
    /\ receipt' = None
    /\ attestation' = None
    /\ failure' = None
    /\ queried' = None
    /\ sent' = <<>>
    /\ UNCHANGED <<allowed_image_ids, signer, lab>>

LabIdle == [phase |-> "off", calls |-> 0]

\* main, lines 60-78: the components are built from a validated Config and
\* the poll loop waits for its first tick
Init ==
    /\ allowed_image_ids \in AllowLists
    /\ signer = ReceiptSigner_new(ConfiguredKey)
    /\ proc = "running"
    /\ pc = "tick"
    /\ attempt = 0
    /\ last_error = None
    /\ outcomes = <<>>
    /\ sleeps = <<>>
    /\ inflight = NoCall
    /\ requests = <<>>
    /\ idx = 0
    /\ processed = 0
    /\ entered = 0
    /\ result = None
    /\ receipt_bytes = None
    /\ receipt = None
    /\ attestation = None
    /\ failure = None
    /\ queried = None
    /\ sent = <<>>
    /\ lab = LabIdle

Next ==
    \/ Tick
    \/ GqlSend
    \/ GqlFail
    \/ GqlTimeout
    \/ GqlWake
    \/ GqlSucceed
    \/ Discovered
    \/ StartBatch
    \/ FetchSend
    \/ FetchRespond
    \/ FetchFail
    \/ Verify
    \/ Sign
    \/ SubmitSend
    \/ SubmitRespond
    \/ SubmitTimeout
    \/ RequestFailed
    \/ HealthServerStops

Spec == Init /\ [][Next]_vars

(***************************************************************************)
(* The signer on its own, as the tests of receipt_signer.rs call it: two   *)
(* receipts a and b, equal or different in one field, are each signed by   *)
(* the same ReceiptSigner.                                                 *)
(***************************************************************************)
SigningKeys == {5, 9}
S_0x1234 == <<48,120,49,50,51,52>>           \* "0x1234"
S_0x5678 == <<48,120,53,54,55,56>>           \* "0x5678"
S_0xabcd == <<48,120,97,98,99,100>>          \* "0xabcd"
S_0xabce == <<48,120,97,98,99,101>>          \* "0xabce"

LabDevices == {S_dev1, S_dev2}
LabProofTypes == {S_iot_validation, S_iot_privacy}
LabReceiptHashes == {S_0x1234, S_0x5678}
LabImageIds == {S_0x5678, S_0xabcd}
LabJournalHashes == {S_0xabcd, S_0xabce}
LabEpochs == {1, 256}
LabInputs == {2, 3}
LabTimestamps == {None, Some(1234567890), Some(1234567891)}
LabAddresses == {None} \cup {Some(DeriveAddress(k)) : k \in SigningKeys}

LabReceipts ==
    [device_id : LabDevices, proof_type : {S_iot_validation},
     receipt_hash : {S_0x1234}, image_id : LabImageIds,
     journal_hash : {S_0xabcd}, epoch_index : LabEpochs, input_index : {2},
     signature : {<<>>}, timestamp : {None, Some(1234567890)},
     verifier_address : LabAddresses]

\* `a`, and every receipt that differs from `a` in exactly one field
OneFieldVariants(a) ==
    {[a EXCEPT !.device_id = v] : v \in LabDevices}
    \cup {[a EXCEPT !.proof_type = v] : v \in LabProofTypes}
    \cup {[a EXCEPT !.receipt_hash = v] : v \in LabReceiptHashes}
    \cup {[a EXCEPT !.image_id = v] : v \in LabImageIds}
    \cup {[a EXCEPT !.journal_hash = v] : v \in LabJournalHashes}
    \cup {[a EXCEPT !.epoch_index = v] : v \in LabEpochs}
    \cup {[a EXCEPT !.input_index = v] : v \in LabInputs}
    \cup {[a EXCEPT !.timestamp = v] : v \in LabTimestamps}
    \cup {[a EXCEPT !.verifier_address = v] : v \in LabAddresses}

LabInit ==
    /\ allowed_image_ids = <<S_placeholder_image_id>>
    /\ signer \in {ReceiptSigner_new(k) : k \in SigningKeys}
    /\ proc = "running"
    /\ pc = "tick"
    /\ attempt = 0
    /\ last_error = None
    /\ outcomes = <<>>
    /\ sleeps = <<>>
    /\ inflight = NoCall
    /\ requests = <<>>
    /\ idx = 0
    /\ processed = 0
    /\ entered = 0
    /\ result = None
    /\ receipt_bytes = None
    /\ receipt = None
    /\ attestation = None
    /\ failure = None
    /\ queried = None
    /\ sent = <<>>
    /\ \E a \in LabReceipts : \E b \in OneFieldVariants(a) :
          lab = [phase |-> "on", calls |-> 0, a |-> a, b |-> b,
                 signed_a |-> None, signed_b |-> None,
                 recovery_bit_a |-> None, recovery_bit_b |-> None]

pipeline_vars ==
    <<allowed_image_ids, signer, proc, pc, attempt, last_error, outcomes,
      sleeps, inflight, requests, idx, processed, entered, result,
      receipt_bytes, receipt, attestation, failure, queried, sent>>

\* signer.sign_receipt(a)
LabSignA ==
    /\ lab.phase = "on" /\ lab.signed_a = None
    /\ lab' = [lab EXCEPT
                 !.signed_a = Some(sign_receipt(signer, lab.a)),
                 !.recovery_bit_a = Some(signature_of(signer, lab.a).recovery_bit),
                 !.calls = @ + 1]
    /\ UNCHANGED pipeline_vars

\* signer.sign_receipt(b)
LabSignB ==
    /\ lab.phase = "on" /\ lab.signed_b = None
    /\ lab' = [lab EXCEPT
                 !.signed_b = Some(sign_receipt(signer, lab.b)),
                 !.recovery_bit_b = Some(signature_of(signer, lab.b).recovery_bit),
                 !.calls = @ + 1]
    /\ UNCHANGED pipeline_vars

LabNext == LabSignA \/ LabSignB

SignSpec == LabInit /\ [][LabNext]_vars

(***************************************************************************)
(* The allow-list on its own: a ProofVerifier built from any list is       *)
(* edited with add_allowed_image and remove_allowed_image.                 *)
(***************************************************************************)
MaxImages == 3         \* add_allowed_image is called on lists shorter than this

PolicyImageIds == {S_imgA, S_imgB, S_placeholder_image_id}

PolicyInit ==
    /\ allowed_image_ids \in SeqsUpTo(PolicyImageIds, 2)
    /\ signer = ReceiptSigner_new(ConfiguredKey)
    /\ proc = "running"
    /\ pc = "tick"
    /\ attempt = 0
    /\ last_error = None
    /\ outcomes = <<>>
    /\ sleeps = <<>>
    /\ inflight = NoCall
    /\ requests = <<>>
    /\ idx = 0
    /\ processed = 0
    /\ entered = 0
    /\ result = None
    /\ receipt_bytes = None
    /\ receipt = None
    /\ attestation = None
    /\ failure = None
    /\ queried = None
    /\ sent = <<>>
    /\ lab = [phase |-> "policy", calls |-> 0, op |-> "none", image_id |-> <<>>,
              before |-> <<>>]

\* verifier.add_allowed_image(image_id)
PolicyAdd ==
    /\ lab.phase = "policy"
    /\ Len(allowed_image_ids) < MaxImages
    /\ \E image_id \in PolicyImageIds :
          /\ allowed_image_ids' = add_allowed_image(allowed_image_ids, image_id)
          /\ lab' = [lab EXCEPT !.op = "add", !.image_id = image_id,
                                !.before = allowed_image_ids]
    /\ UNCHANGED <<signer, proc, pc, attempt, last_error, outcomes, sleeps,
                   inflight, requests, idx, processed, entered, result,
                   receipt_bytes, receipt, attestation, failure, queried, sent>>

\* verifier.remove_allowed_image(image_id)
PolicyRemove ==
    /\ lab.phase = "policy"
    /\ \E image_id \in PolicyImageIds :
          /\ allowed_image_ids' = remove_allowed_image(allowed_image_ids, image_id)
          /\ lab' = [lab EXCEPT !.op = "remove", !.image_id = image_id,
                                !.before = allowed_image_ids]
    /\ UNCHANGED <<signer, proc, pc, attempt, last_error, outcomes, sleeps,
                   inflight, requests, idx, processed, entered, result,
                   receipt_bytes, receipt, attestation, failure, queried, sent>>

PolicyNext == PolicyAdd \/ PolicyRemove

PolicySpec == PolicyInit /\ [][PolicyNext]_vars

(***************************************************************************)
(* The InputBox client on its own: it is built from an endpoint and a      *)
(* contract address, a second client is built from the address the first   *)
(* one stored, and the first one probes the health of the InputBox.        *)
(***************************************************************************)
S_12 == <<49,50>>                            \* "12"
S_0x12 == <<48,120,49,50>>                   \* "0x12"
S_0X12 == <<48,88,49,50>>                    \* "0X12"
S_x0x12 == <<120,48,120,49,50>>              \* "x0x12"
S_host == <<104>>                            \* "h"

ClientAddresses == {S_12, S_0x12, S_0X12, S_x0x12, S_0x, <<>>}
ClientEndpoints == {S_host \o S_input_path, S_host,
                    S_host \o S_input_path \o S_input_path}

\* what send() of the probe can return
ProbeResponses ==
    {[kind |-> "transport_error", status |-> 0],
     [kind |-> "timeout", status |-> 0]}
    \cup {[kind |-> "http", status |-> st] : st \in HttpStatuses \cup {204, 301}}

ClientInit ==
    /\ allowed_image_ids = <<S_placeholder_image_id>>
    /\ signer = ReceiptSigner_new(ConfiguredKey)
    /\ proc = "running"
    /\ pc = "tick"
    /\ attempt = 0
    /\ last_error = None
    /\ outcomes = <<>>
    /\ sleeps = <<>>
    /\ inflight = NoCall
    /\ requests = <<>>
    /\ idx = 0
    /\ processed = 0
    /\ entered = 0
    /\ result = None
    /\ receipt_bytes = None
    /\ receipt = None
    /\ attestation = None
    /\ failure = None
    /\ queried = None
    /\ sent = <<>>
    /\ \E e \in ClientEndpoints, a \in ClientAddresses :
          lab = [phase |-> "client", calls |-> 0, endpoint |-> e, given |-> a,
                 client |-> None, again |-> None, probe |-> None]

\* InputBoxClient::new(endpoint, dapp_address)
ClientNew ==
    /\ lab.phase = "client" /\ lab.client = None
    /\ \E built \in BOOLEAN :
          lab' = [lab EXCEPT
                    !.client = Some(InputBoxClient_new(lab.endpoint, lab.given, built))]
    /\ UNCHANGED pipeline_vars

\* InputBoxClient::new(endpoint, &client.dapp_address)
ClientNewAgain ==
    /\ lab.phase = "client" /\ lab.client # None /\ lab.client[2].ok
    /\ lab.again = None
    /\ lab' = [lab EXCEPT
                 !.again = Some(InputBoxClient_new(lab.endpoint,
                                   lab.client[2].value.dapp_address, TRUE))]
    /\ UNCHANGED pipeline_vars

\* client.health_check().await
ClientHealthCheck ==
    /\ lab.phase = "client" /\ lab.client # None /\ lab.client[2].ok
    /\ lab.probe = None
    /\ \E resp \in ProbeResponses :
          lab' = [lab EXCEPT
                    !.probe = Some([url |-> health_url(lab.client[2].value),
                                    timeout |-> lab.client[2].value.timeout,
                                    response |-> resp,
                                    result |-> health_check(resp)])]
    /\ UNCHANGED pipeline_vars

ClientNext == ClientNew \/ ClientNewAgain \/ ClientHealthCheck

ClientSpec == ClientInit /\ [][ClientNext]_vars

(***************************************************************************)
(* verifier.rs: the alternative verifier.  A receipt carries the claim     *)
(* with pre_state_digest and exit_code, the journal and the seal; the      *)
(* identities are compared as the strings "0x" + lower-case hex.           *)
(***************************************************************************)
\* the bytes of a receipt, bincode::serialize
receipt_encoding(rc) ==
    (IF rc.claim = None THEN <<0>>
     ELSE <<1>> \o rc.claim[2].pre_state_digest \o <<rc.claim[2].exit_code>>)
    \o <<Len(rc.journal)>> \o rc.journal
    \o <<IF rc.seal_valid THEN 1 ELSE 0>>

\* format!("0x{}", hex::encode(..)), lines 39, 49, 50
hex_0x(bytes) == S_0x \o HexEncode(bytes)

\* VerificationResult
VerificationResult(is_valid, rc, claim, error_message) ==
    [is_valid |-> is_valid,
     receipt_hash |-> hex_0x(Keccak256(receipt_encoding(rc))),
     image_id |-> hex_0x(claim.pre_state_digest),
     journal_hash |-> hex_0x(Keccak256(rc.journal)),
     exit_code |-> claim.exit_code,
     error_message |-> error_message]

\* the exit code is reported but does not decide the validity
verify_receipt_ignoring_exit(allowed, bytes, expected_image_id) ==
    LET de == bincode_deserialize(bytes) IN
    IF ~ de.ok THEN de ELSE
    LET rc == de.value
        got == get_claim(rc)
    IN
    IF ~ got.ok THEN got ELSE
    LET claim == got.value
        image_id == hex_0x(claim.pre_state_digest)
    IN
    IF image_id # expected_image_id
    THEN Ok(VerificationResult(FALSE, rc, claim,
               Some([text |-> "Image ID mismatch",
                     expected |-> expected_image_id, got |-> image_id])))
    ELSE IF allowed # <<>> /\ ~ \E i \in 1..Len(allowed) : allowed[i] = image_id
    THEN Ok(VerificationResult(FALSE, rc, claim,
               Some([text |-> "Image ID not in allowed list",
                     image_id |-> image_id])))
    ELSE IF rc.seal_valid
    THEN Ok(VerificationResult(TRUE, rc, claim, None))
    ELSE Ok(VerificationResult(FALSE, rc, claim,
               Some([text |-> "Receipt verification failed"])))

\* ProofVerifier::verify_receipt, lines 31-112
verify_receipt(allowed, bytes, expected_image_id) ==
    LET de == bincode_deserialize(bytes) IN
    IF ~ de.ok THEN de ELSE
    LET rc == de.value
        got == get_claim(rc)
    IN
    IF ~ got.ok THEN got ELSE
    LET claim == got.value
        image_id == hex_0x(claim.pre_state_digest)
    IN
    IF image_id # expected_image_id
    THEN Ok(VerificationResult(FALSE, rc, claim,
               Some([text |-> "Image ID mismatch",
                     expected |-> expected_image_id, got |-> image_id])))
    ELSE IF allowed # <<>> /\ ~ \E i \in 1..Len(allowed) : allowed[i] = image_id
    THEN Ok(VerificationResult(FALSE, rc, claim,
               Some([text |-> "Image ID not in allowed list",
                     image_id |-> image_id])))
    ELSE IF rc.seal_valid
    THEN Ok(VerificationResult(claim.exit_code = 0, rc, claim,
               IF claim.exit_code # 0
               THEN Some([text |-> "Guest program exited with code",
                          exit_code |-> claim.exit_code])
               ELSE None))
    ELSE Ok(VerificationResult(FALSE, rc, claim,
               Some([text |-> "Receipt verification failed"])))

(***************************************************************************)
(* The alternative verifier on its own: a ProofVerifier built from any     *)
(* list of at most MaxAltAllowed identities is given artifacts and         *)
(* expected identities.                                                    *)
(***************************************************************************)
MaxAltAllowed == 2

S_abcd == <<97,98,99,100>>                   \* "abcd"
S_0xABCD == <<48,120,65,66,67,68>>           \* "0xABCD"

AltDigests == {<<171, 205>>, <<171, 206>>}   \* 0xabcd, 0xabce
AltImageIds == {S_0xabcd, S_0xabce, S_abcd, S_0xABCD}
AltReceipts ==
    [claim : {None} \cup {Some([pre_state_digest |-> d, exit_code |-> e]) :
                              d \in AltDigests, e \in {0, 1}},
     journal : {<<>>, <<1, 2>>},
     seal_valid : BOOLEAN]
AltArtifacts == [body : {Garbage} \cup AltReceipts]

AltInit ==
    /\ allowed_image_ids \in SeqsUpTo({S_0xabcd, S_0xabce}, MaxAltAllowed)
    /\ signer = ReceiptSigner_new(ConfiguredKey)
    /\ proc = "running"
    /\ pc = "tick"
    /\ attempt = 0
    /\ last_error = None
    /\ outcomes = <<>>
    /\ sleeps = <<>>
    /\ inflight = NoCall
    /\ requests = <<>>
    /\ idx = 0
    /\ processed = 0
    /\ entered = 0
    /\ result = None
    /\ receipt_bytes = None
    /\ receipt = None
    /\ attestation = None
    /\ failure = None
    /\ queried = None
    /\ sent = <<>>
    /\ lab = [phase |-> "alt", calls |-> 0, call |-> None]

\* verifier.verify_receipt(receipt_bytes, expected_image_id)
AltVerify ==
    /\ lab.phase = "alt"
    /\ \E bytes \in AltArtifacts, expected_image_id \in AltImageIds :
          lab' = [lab EXCEPT
                    !.calls = 1,
                    !.call = Some([receipt_bytes |-> bytes,
                                   expected_image_id |-> expected_image_id,
                                   out |-> verify_receipt(allowed_image_ids,
                                               bytes, expected_image_id)])]
    /\ UNCHANGED pipeline_vars

AltNext == AltVerify

AltSpec == AltInit /\ [][AltNext]_vars

(***************************************************************************)
(* The pipeline over several ticks, with a history of the ticks in which   *)
(* the attestation of one tracked request was accepted by the InputBox.    *)
(* The discovery returns at most MaxRepeatNotices notices per tick.        *)
(***************************************************************************)
MaxRepeatNotices == 1

TrackedRequest ==
    [device_id |-> S_dev1, proof_type |-> S_iot_validation,
     receipt_url |-> S_url_https, expected_image_id |-> S_imgA,
     epoch_index |-> 1, input_index |-> 7]

RepeatInit ==
    /\ allowed_image_ids = <<S_placeholder_image_id>>
    /\ signer = ReceiptSigner_new(ConfiguredKey)
    /\ proc = "running"
    /\ pc = "tick"
    /\ attempt = 0
    /\ last_error = None
    /\ outcomes = <<>>
    /\ sleeps = <<>>
    /\ inflight = NoCall
    /\ requests = <<>>
    /\ idx = 0
    /\ processed = 0
    /\ entered = 0
    /\ result = None
    /\ receipt_bytes = None
    /\ receipt = None
    /\ attestation = None
    /\ failure = None
    /\ queried = None
    /\ sent = <<>>
    /\ lab = [phase |-> "ticks", calls |-> 0, tracked |-> TrackedRequest,
              now |-> FALSE, ticks_accepted |-> 0]

\* the responses of the discovery hold at most MaxRepeatNotices notices
RepeatEnv == queried' # None => Len(queried'[2].edges) <= MaxRepeatNotices

\* the steps of Next, with the discovery restricted to the short responses
RepeatDiscovered == Discovered /\ RepeatEnv

RepeatNext ==
    \/ Tick
    \/ GqlSend
    \/ GqlFail
    \/ GqlTimeout
    \/ GqlWake
    \/ GqlSucceed
    \/ RepeatDiscovered
    \/ StartBatch
    \/ FetchSend
    \/ FetchRespond
    \/ FetchFail
    \/ Verify
    \/ Sign
    \/ SubmitSend
    \/ SubmitRespond
    \/ SubmitTimeout
    \/ RequestFailed
    \/ HealthServerStops

RepeatSpec == RepeatInit /\ [][RepeatNext]_vars

(***************************************************************************)
(* Properties.                                                             *)
(***************************************************************************)
InRequest == pc \in {"fetch", "fetch_wait", "verify", "sign", "submit",
                     "submit_wait", "failed"}
InRetryLoop == pc \in {"gql_attempt", "gql_call", "gql_sleep"}
BatchReturned == pc = "tick" /\ requests # <<>>

\* C1: a request that fails at any stage does not stop the batch: while the
\* batch runs, every request up to the current one has been handed to
\* process_single_request, and when process_proof_requests returns from a
\* non-empty batch, all N requests were handed to it and the result is
\* Ok(processed).
C1_BatchSurvivesFailures ==
    /\ InRequest => (entered = idx /\ idx >= 1 /\ idx <= Len(requests)
                     /\ processed <= idx - 1)
    /\ BatchReturned => /\ entered = Len(requests)
                        /\ result = Ok(processed)
                        /\ processed <= Len(requests)

\* a batch of two requests returned Ok although a request of it failed
C1_Witness ==
    /\ BatchReturned
    /\ Len(requests) = 2
    /\ entered = 2
    /\ processed < 2
    /\ result = Ok(processed)

\* C2: an attestation is built, signed or submitted only for a receipt that
\* passed cryptographic verification (Receipt::verify accepts its seal).
C2_OnlyProvenReceiptsAttested ==
    pc \in {"sign", "submit", "submit_wait"} => receipt[2].receipt.seal_valid

IsMember(allowed, id) == \E i \in 1..Len(allowed) : allowed[i] = id

\* C3: with a non-empty allow-list, verify_proof fails with InvalidImageId for
\* every artifact whose claimed program identity is not in the allow-list,
\* whatever its seal, journal and proof type; it is never accepted.
C3_NonMemberRejected ==
    (/\ pc = "verify"
     /\ allowed_image_ids # <<>>
     /\ bincode_deserialize(receipt_bytes[2]).ok
     /\ get_claim(receipt_bytes[2].body).ok
     /\ ~ IsMember(allowed_image_ids, get_claim(receipt_bytes[2].body).value.image_id))
    => LET v == verify_proof(allowed_image_ids, receipt_bytes[2], req.proof_type)
       IN  ~ v.ok /\ v.kind = "InvalidImageId"

\* C4: the bytes fetch_receipt returns, which are what verify_proof is given,
\* are never larger than max_receipt_size.
C4_SizeCeiling ==
    receipt_bytes # None => receipt_bytes[2].size <= max_receipt_size

BothSigned == lab.phase = "on" /\ lab.signed_a # None /\ lab.signed_b # None

\* C5: two signed attestations that differ in a field other than the signature
\* were signed over different canonical encodings.
C5_EveryFieldSigned ==
    (/\ BothSigned
     /\ [lab.signed_a[2] EXCEPT !.signature = <<>>]
        # [lab.signed_b[2] EXCEPT !.signature = <<>>])
    => hasher_input(lab.signed_a[2]) # hasher_input(lab.signed_b[2])

\* the 65th byte of a signature "0x" + 130 hex digits, as its two digits
IndicatorDigits(sig) == SubSeq(sig, 131, 132)

\* C6: signatures whose recovery bits differ carry different recovery
\* indicators (the 65th byte follows the recovery bit of the signature).
C6_RecoveryIndicatorFollowsSignature ==
    (BothSigned /\ lab.recovery_bit_a # lab.recovery_bit_b)
    => IndicatorDigits(lab.signed_a[2].signature)
       # IndicatorDigits(lab.signed_b[2].signature)

C8_EveryCallHasTimeout ==
    inflight.call # "none" => inflight.timeout # None

IsFailure(o) == o.kind # "ok"

\* C9: execute_with_retry makes at most max_retries attempts: no attempt
\* follows a successful one, Ok is returned right after the first successful
\* attempt, and the error is returned once max_retries attempts have failed.
C9_BoundedRetry ==
    /\ Len(outcomes) <= max_retries
    /\ attempt <= max_retries
    /\ InRetryLoop =>
          /\ \A i \in 1..Len(outcomes) : IsFailure(outcomes[i])
          /\ Len(outcomes) = (IF pc = "gql_sleep" THEN attempt ELSE attempt - 1)
    /\ pc = "gql_ok" =>
          /\ Len(outcomes) = attempt
          /\ ~ IsFailure(outcomes[Len(outcomes)])
          /\ \A i \in 1..(Len(outcomes) - 1) : IsFailure(outcomes[i])
    /\ (pc = "tick" /\ outcomes # <<>>) =>
          /\ Len(outcomes) = max_retries
          /\ \A i \in 1..Len(outcomes) : IsFailure(outcomes[i])
          /\ ~ result.ok
          /\ last_error = Some(result)

\* all max_retries attempts failed and the call returned the error
C9_Witness ==
    /\ pc = "tick"
    /\ Len(outcomes) = max_retries
    /\ \A i \in 1..Len(outcomes) : IsFailure(outcomes[i])
    /\ ~ result.ok

Is4xx(o) == o.kind = "http" /\ o.status >= 400 /\ o.status <= 499

\* C10: an attempt answered with a 4xx status is the last attempt of the call:
\* execute_with_retry makes no further attempt and has failed with that error.
C10_ClientErrorNotRetried ==
    \A i \in 1..Len(outcomes) :
        Is4xx(outcomes[i]) =>
            /\ i = Len(outcomes)
            /\ pc = "tick"
            /\ ~ result.ok
            /\ result.msg = "HTTP error"

IsProofRequest(n) == n.kind = "proof_request"

\* the requests of the well-formed proof-request notices, in notice order
WellFormed(edges) ==
    LET sel == SelectSeq(edges, IsProofRequest)
    IN  [i \in 1..Len(sel) |-> sel[i].data[2]]

\* C11: query_proof_requests never fails because of a malformed notice: it
\* returns Ok with the request of every well-formed notice of the response.
C11_MalformedNoticesSkipped ==
    queried # None =>
        queried[2].result = Ok(WellFormed(queried[2].edges))

DiscoveryInProgress == pc \in {"gql_attempt", "gql_call", "gql_sleep", "gql_ok",
                               "queried"}

\* C12: the requests of a batch are the requests of the notices in the order
\* of the response, and they enter process_single_request one at a time in
\* that order: request idx + 1 enters only when request idx has finished
\* with Ok or with its error.
C12_SequentialInOrder ==
    /\ []((queried # None /\ queried[2].result.ok)
             => queried[2].result.value = WellFormed(queried[2].edges))
    /\ [](InRequest => (entered = idx /\ idx \in 1..Len(requests)))
    /\ [][/\ (pc = "queried" /\ pc' = "fetch")
              => (requests' = queried[2].result.value /\ idx' = 1)
          /\ (InRequest /\ InRequest')
              => /\ requests' = requests
                 /\ \/ idx' = idx
                    \/ /\ idx' = idx + 1
                       /\ pc \in {"submit_wait", "failed"}
                       /\ pc' = "fetch"]_vars

\* the second of two different requests is in the pipeline
C12_Witness ==
    /\ pc = "verify"
    /\ Len(requests) = 2
    /\ requests[1] # requests[2]
    /\ idx = 2
    /\ entered = 2

\* C13: a discovery begins only when the poll loop waits for its tick: while
\* a discovery runs no request is in the pipeline and nothing of a request
\* is left, and while a request is processed no discovery call is in flight.
C13_BatchesNeverOverlap ==
    /\ [](DiscoveryInProgress =>
             /\ requests = <<>> /\ idx = 0 /\ sent = <<>>
             /\ receipt_bytes = None /\ receipt = None
             /\ attestation = None /\ failure = None)
    /\ [](InRequest => inflight.call # "graphql")
    /\ [][(pc' = "gql_attempt" /\ pc # pc' /\ pc # "gql_sleep")
              => pc = "tick"]_vars

\* the last request of a batch of two awaits its submission
C13_Witness ==
    /\ pc = "submit_wait"
    /\ Len(requests) = 2
    /\ idx = 2
    /\ inflight.call = "inputbox"

\* C14: when the discovery returned an empty list, process_proof_requests
\* returned Ok(0) and entered no request: nothing was fetched, verified,
\* signed or submitted; a request stage is only entered for a request.
C14_EmptyDiscoveryDoesNothing ==
    /\ InRequest => Len(requests) >= 1
    /\ (pc = "tick" /\ queried # None /\ queried[2].result.ok) =>
          /\ queried[2].result.value = <<>>
          /\ result = Ok(0)
          /\ requests = <<>> /\ idx = 0 /\ entered = 0 /\ processed = 0
          /\ sent = <<>> /\ inflight = NoCall
          /\ receipt_bytes = None /\ receipt = None /\ attestation = None

\* a response whose notices hold no proof request was answered with Ok(0)
C14_Witness ==
    /\ pc = "tick"
    /\ queried # None
    /\ queried[2].edges # <<>>
    /\ queried[2].result = Ok(<<>>)
    /\ result = Ok(0)
    /\ entered = 0

\* the artifact in hand deserializes to a receipt with a claim
ArtifactHasClaim ==
    /\ pc = "verify"
    /\ bincode_deserialize(receipt_bytes[2]).ok
    /\ get_claim(receipt_bytes[2].body).ok

\* C15: verify_proof with proof type "iot_privacy" accepts an artifact that
\* deserializes and passes the allow-list gate although its journal is empty.
C15_PrivacyToleratesEmptyJournal ==
    (/\ ArtifactHasClaim
     /\ req.proof_type = S_iot_privacy
     /\ image_allowed(allowed_image_ids)
     /\ receipt_bytes[2].body.journal = <<>>)
    => verify_proof(allowed_image_ids, receipt_bytes[2], req.proof_type).ok

KnownProofTypes == {S_iot_validation, S_iot_privacy, S_iot_compute}

\* C16: verify_proof returns an error for every proof-type tag other than
\* "iot_validation", "iot_privacy" and "iot_compute", whatever the artifact
\* and the allow-list: no request with another tag gets past verification.
C16_UnknownTypeNeverAccepted ==
    /\ (pc = "verify" /\ req.proof_type \notin KnownProofTypes)
       => ~ verify_proof(allowed_image_ids, receipt_bytes[2], req.proof_type).ok
    /\ pc \in {"sign", "submit", "submit_wait"}
       => req.proof_type \in KnownProofTypes

\* an artifact that passes every other check was refused for its tag
C16_Witness ==
    /\ pc = "failed"
    /\ req.proof_type = S_iot_audit
    /\ failure[2].stage = "verify"
    /\ failure[2].error.msg = "Unknown proof type"

EmptyJournalMessages == {"Receipt has empty journal",
                         "Validation proof has empty journal",
                         "Compute proof has empty journal"}

\* C17: an artifact that deserializes, whose claimed identity is a member of
\* the non-empty allow-list and whose journal is empty, fails verify_proof
\* for "iot_compute" and "iot_validation" with an empty-journal error, not
\* with InvalidImageId.
C17_EmptyJournalRejected ==
    (/\ ArtifactHasClaim
     /\ req.proof_type \in {S_iot_compute, S_iot_validation}
     /\ allowed_image_ids # <<>>
     /\ IsMember(allowed_image_ids, get_claim(receipt_bytes[2].body).value.image_id)
     /\ receipt_bytes[2].body.journal = <<>>)
    => LET v == verify_proof(allowed_image_ids, receipt_bytes[2], req.proof_type)
       IN  /\ ~ v.ok
           /\ v.kind = "ProofVerification"
           /\ v.msg \in EmptyJournalMessages

PolicyEdited == lab.phase = "policy" /\ lab.op # "none"

\* C18: after add_allowed_image(id) the list holds id, is unchanged when it
\* held id before, and a second add_allowed_image(id) leaves it as it is;
\* after remove_allowed_image(id) the list does not hold id, is unchanged
\* when it did not hold id before, and a second remove leaves it as it is;
\* either call leaves the membership of every other identity unchanged.
C18_PolicyEditsIdempotent ==
    PolicyEdited =>
        /\ lab.op = "add" =>
              /\ IsMember(allowed_image_ids, lab.image_id)
              /\ IsMember(lab.before, lab.image_id) => allowed_image_ids = lab.before
              /\ add_allowed_image(allowed_image_ids, lab.image_id) = allowed_image_ids
        /\ lab.op = "remove" =>
              /\ ~ IsMember(allowed_image_ids, lab.image_id)
              /\ ~ IsMember(lab.before, lab.image_id) => allowed_image_ids = lab.before
              /\ remove_allowed_image(allowed_image_ids, lab.image_id) = allowed_image_ids
        /\ \A other \in PolicyImageIds \ {lab.image_id} :
              IsMember(allowed_image_ids, other) <=> IsMember(lab.before, other)

\* an identity the list already held was added to a list of two
C18_Witness ==
    /\ PolicyEdited
    /\ lab.op = "add"
    /\ IsMember(lab.before, lab.image_id)
    /\ Len(lab.before) = 2
    /\ lab.before[1] # lab.before[2]

IsPost(m) == m.call = "inputbox"
Posts == Len(SelectSeq(sent, IsPost))

\* C19: submit_verified_receipt sends one HTTP request per call and never a
\* second one: none before the call, one while it is awaited, and one when
\* it has returned its error to process_proof_requests, which holds the
\* error of the current request to log it and go on.
C19_SubmitSendsOnce ==
    /\ Posts <= 1
    /\ pc \in {"fetch", "fetch_wait", "verify", "sign", "submit"} => Posts = 0
    /\ pc = "submit_wait" => Posts = 1
    /\ (pc = "failed" /\ failure[2].stage = "submit") =>
          /\ Posts = 1
          /\ ~ failure[2].error.ok
          /\ inflight = NoCall
          /\ idx \in 1..Len(requests)
          /\ processed <= idx - 1

\* a submission refused with a non-success status came back as the error
C19_Witness ==
    /\ pc = "failed"
    /\ failure[2].stage = "submit"
    /\ failure[2].error.msg = "InputBox returned error"
    /\ Posts = 1

\* C20: whatever response with a success status the awaited submission
\* gets, submit_verified_receipt returns Ok.
C20_SuccessStatusIsOk ==
    pc = "submit_wait" =>
        \A resp \in SubmitResponses :
            (resp.kind = "http" /\ is_success(resp.status)) => submit_result(resp).ok

Probed == lab.phase = "client" /\ lab.probe # None

\* C21: health_check never returns an error: it returns Ok(true) exactly
\* when the probe was answered with a success status, and Ok(false) for any
\* other status, for a transport failure and for a timeout of the client.
C21_HealthCheckNeverFails ==
    Probed =>
        LET p == lab.probe[2] IN
        /\ p.result.ok
        /\ p.result.value \in BOOLEAN
        /\ p.result.value <=> (/\ p.response.kind = "http"
                               /\ p.response.status >= 200
                               /\ p.response.status <= 299)

\* the probe could not be sent and health_check answered false
C21_Witness ==
    /\ Probed
    /\ lab.probe[2].response.kind = "transport_error"
    /\ lab.probe[2].result = Ok(FALSE)

ClientBuilt == lab.phase = "client" /\ lab.client # None /\ lab.client[2].ok

\* C27: the address InputBoxClient::new stores starts with "0x": it is the
\* given address when that starts with "0x" and "0x" + the given address
\* otherwise; a client built from the stored address stores the same address.
C27_AddressNormalized ==
    ClientBuilt =>
        LET stored == lab.client[2].value.dapp_address IN
        /\ StartsWith(stored, S_0x)
        /\ StartsWith(lab.given, S_0x) => stored = lab.given
        /\ ~ StartsWith(lab.given, S_0x) => stored = S_0x \o lab.given
        /\ normalize_dapp_address(stored) = stored
        /\ lab.again # None => lab.again[2].value.dapp_address = stored

\* an address without the prefix was stored and a second client built from it
C27_Witness ==
    /\ ClientBuilt
    /\ lab.given = S_12
    /\ lab.client[2].value.dapp_address = S_0x12
    /\ lab.again # None

IsGet(m) == m.call = "fetch"
Gets == SelectSeq(sent, IsGet)

IsIpfs(url) == StartsWith(url, S_ipfs_scheme)
IsHttp(url) == StartsWith(url, S_http_scheme) \/ StartsWith(url, S_https_scheme)

C23_SignerAddressAttached ==
    lab.phase = "on" =>
        /\ lab.signed_a # None =>
              lab.signed_a[2].verifier_address = Some(get_address(signer))
        /\ lab.signed_b # None =>
              lab.signed_b[2].verifier_address = Some(get_address(signer))

\* C24: the image_id of an attestation of the pipeline is the identity of the
\* claim of the verified artifact (as it is, or hex-encoded).
C24_ImageIdFromArtifact ==
    attestation # None =>
        LET id == receipt[2].receipt.claim[2].image_id
        IN  attestation[2].image_id \in {id, HexEncode(id)}

\* C25: the process runs with the poll loop and the liveness server both
\* alive, or it has exited and the poll loop is gone with everything it
\* awaited; the liveness server never stops with the process going on.
C25_ExitTogether ==
    /\ proc \in {"running", "exited"}
    /\ proc = "exited" <=> pc = "exited"
    /\ proc = "exited" =>
          /\ inflight = NoCall /\ sent = <<>> /\ requests = <<>>
          /\ receipt_bytes = None /\ receipt = None /\ attestation = None

\* the liveness server stopped and the process exited with its poll loop
C25_Witness ==
    /\ proc = "exited"
    /\ pc = "exited"
    /\ inflight = NoCall

IsHexChar(b) == b \in (48..57) \cup (97..102)

\* `signed` is `r` as sign_receipt returned it: "0x", then the hex digits of
\* the 32 bytes of r, of the 32 bytes of s and of one more byte
SignatureLayout(r, signed) ==
    LET sig == signed.signature
        rs == signature_of(signer, r)
    IN  /\ sig # <<>>
        /\ Len(sig) = 132
        /\ SubSeq(sig, 1, 2) = S_0x
        /\ \A i \in 3..Len(sig) : IsHexChar(sig[i])
        /\ Len(rs.r) = 32 /\ Len(rs.s) = 32
        /\ SubSeq(sig, 3, 66) = HexEncode(rs.r)
        /\ SubSeq(sig, 67, 130) = HexEncode(rs.s)

\* C26: every signature sign_receipt returns is "0x" and 130 hex characters,
\* the 65 bytes r (32), s (32) and the recovery indicator (1), and the
\* signature field of the attestation returned is not empty.
C26_SignatureLayout ==
    lab.phase = "on" =>
        /\ lab.signed_a # None => SignatureLayout(lab.a, lab.signed_a[2])
        /\ lab.signed_b # None => SignatureLayout(lab.b, lab.signed_b[2])

\* two different receipts were signed
C26_Witness ==
    /\ BothSigned
    /\ lab.a # lab.b
    /\ Len(lab.signed_a[2].signature) = 132
    /\ Len(lab.signed_b[2].signature) = 132

\* C28: the stages of a request run in the order fetch, verify, sign,
\* submit, each on the result of the one before and none twice: a stage is
\* reached with the results of the earlier stages and with nothing of the
\* later ones, and a request that failed in fetch or verify has no
\* attestation and sent nothing to the InputBox.
C28_StagesInOrder ==
    /\ pc = "fetch" =>
          /\ sent = <<>> /\ failure = None
          /\ receipt_bytes = None /\ receipt = None /\ attestation = None
    /\ pc = "fetch_wait" =>
          /\ Len(sent) = 1 /\ IsGet(sent[1]) /\ failure = None
          /\ receipt_bytes = None /\ receipt = None /\ attestation = None
    /\ pc = "verify" =>
          /\ Len(sent) = 1 /\ IsGet(sent[1]) /\ failure = None
          /\ receipt_bytes # None /\ receipt = None /\ attestation = None
    /\ pc = "sign" =>
          /\ Len(sent) = 1 /\ IsGet(sent[1]) /\ failure = None
          /\ receipt_bytes # None /\ attestation = None
          /\ receipt # None
          /\ verify_proof(allowed_image_ids, receipt_bytes[2], req.proof_type)
                = Ok(receipt[2])
    /\ pc = "submit" =>
          /\ Len(sent) = 1 /\ IsGet(sent[1]) /\ failure = None
          /\ receipt_bytes # None /\ receipt # None
          /\ attestation # None /\ attestation[2].signature # <<>>
    /\ pc = "submit_wait" =>
          /\ Len(sent) = 2 /\ IsGet(sent[1]) /\ IsPost(sent[2]) /\ failure = None
          /\ receipt_bytes # None /\ receipt # None /\ attestation # None
    /\ pc = "failed" =>
          /\ failure # None
          /\ failure[2].stage = "fetch" =>
                /\ receipt_bytes = None /\ receipt = None /\ attestation = None
                /\ Posts = 0 /\ Len(Gets) <= 1
          /\ failure[2].stage = "verify" =>
                /\ receipt_bytes # None /\ receipt = None /\ attestation = None
                /\ Posts = 0 /\ Len(Gets) = 1
          /\ failure[2].stage = "submit" =>
                /\ attestation # None /\ Len(sent) = 2

\* the verification of a fetched artifact failed: nothing signed or sent on
C28_Witness ==
    /\ pc = "failed"
    /\ failure[2].stage = "verify"
    /\ receipt_bytes # None
    /\ attestation = None
    /\ Posts = 0

\* the error execute_request or the timeout gives for the outcome `o`
ErrorMatches(e, o) ==
    /\ ~ e.ok
    /\ o.kind = "timeout" => e = Err("GraphQL", "Request timeout")
    /\ o.kind = "transport_error" => e = Err("Network", "send failed")
    /\ (o.kind = "http" /\ ~ is_success(o.status)) =>
          (e.kind = "GraphQL" /\ e.status = o.status)
    /\ (o.kind = "http" /\ is_success(o.status)) =>
          e.msg \in {"decode failed", "errors", "No data in response"}

\* C29: whatever made an attempt fail, execute_with_retry keeps its error as
\* the last error and goes on to another attempt while attempts remain; it
\* returns only after max_retries failed attempts, with the error of the
\* last one.
C29_EveryFailureRetried ==
    /\ (outcomes # <<>> /\ IsFailure(outcomes[Len(outcomes)])) =>
          /\ last_error # None
          /\ ErrorMatches(last_error[2], outcomes[Len(outcomes)])
    /\ (InRetryLoop /\ outcomes # <<>>) => Len(outcomes) < max_retries
    /\ (pc = "tick" /\ outcomes # <<>>) =>
          /\ Len(outcomes) = max_retries
          /\ result = last_error[2]

\* a timeout, a 404 and a 503: the call returned the error of the 503
C29_Witness ==
    /\ pc = "tick"
    /\ Len(outcomes) = max_retries
    /\ outcomes[1].kind = "timeout"
    /\ outcomes[2].status = 404
    /\ outcomes[3].status = 503
    /\ result.status = 503

\* C30: the k-th wait of a call is retry_delay * k; there is one wait after
\* each failed attempt but the last, none after the last attempt and none
\* after a successful attempt.
C30_LinearBackoff ==
    /\ \A k \in 1..Len(sleeps) : sleeps[k] = retry_delay * k
    /\ Len(sleeps) <= max_retries - 1
    /\ pc = "gql_sleep" =>
          (Len(sleeps) = attempt /\ Len(outcomes) = attempt /\ attempt < max_retries)
    /\ pc \in {"gql_attempt", "gql_call", "gql_ok"} => Len(sleeps) = attempt - 1
    /\ (pc = "tick" /\ outcomes # <<>>) => Len(sleeps) = max_retries - 1

\* the third attempt starts after waits of retry_delay and 2 * retry_delay
C30_Witness ==
    /\ pc = "gql_attempt"
    /\ attempt = max_retries
    /\ sleeps = <<retry_delay, retry_delay * 2>>

\* the discovery of the tick ended in an error: every attempt failed, or the
\* notices of the response could not be decoded
DiscoveryFailed ==
    \/ (~ InRetryLoop /\ pc # "gql_ok" /\ outcomes # <<>>)
    \/ (pc # "queried" /\ queried # None /\ ~ queried[2].result.ok)

\* C31: when the discovery of a tick has failed, process_proof_requests has
\* returned its error to main, no request was entered and nothing was
\* fetched, signed or sent in the tick, the process is running and the poll
\* loop is back at its tick, from which the next discovery can start.
C31_DiscoveryFailureSurvived ==
    DiscoveryFailed =>
        /\ proc = "running"
        /\ pc = "tick"
        /\ ~ result.ok
        /\ result.kind # "pending"
        /\ requests = <<>> /\ idx = 0 /\ entered = 0 /\ processed = 0
        /\ sent = <<>> /\ inflight = NoCall
        /\ receipt_bytes = None /\ receipt = None /\ attestation = None
        /\ ENABLED Tick

\* three attempts failed, the last one with a 503, and the loop is at its tick
C31_Witness ==
    /\ DiscoveryFailed
    /\ pc = "tick"
    /\ Len(outcomes) = max_retries
    /\ outcomes[max_retries].status = 503
    /\ result.msg = "Server busy"
    /\ entered = 0

TickJustFired == pc = "gql_attempt" /\ attempt = 1

AcceptedBefore ==
    lab.phase = "ticks" /\ lab.ticks_accepted >= 1 /\ req = lab.tracked

\* C32: nothing of a tick is kept for the next one: when a tick has fired,
\* every variable of the batch is as at the first tick; every request the
\* discovery returns enters the batch, also one whose attestation was
\* accepted in an earlier tick, and its attestation is sent again.
C32_NoRecordBetweenTicks ==
    /\ [](TickJustFired =>
             /\ requests = <<>> /\ idx = 0 /\ processed = 0 /\ entered = 0
             /\ last_error = None /\ outcomes = <<>> /\ sleeps = <<>>
             /\ inflight = NoCall /\ sent = <<>> /\ queried = None
             /\ receipt_bytes = None /\ receipt = None
             /\ attestation = None /\ failure = None)
    /\ []((pc = "submit" /\ AcceptedBefore) => ENABLED SubmitSend)
    /\ [][(/\ pc = "queried" /\ pc' \notin {"queried", "exited"}
           /\ queried[2].result.ok
           /\ queried[2].result.value # <<>>)
          => (/\ pc' = "fetch"
              /\ requests' = queried[2].result.value
              /\ idx' = 1)]_vars

\* the attestation of the tracked request was accepted in two ticks
C32_Witness ==
    /\ lab.phase = "ticks"
    /\ lab.ticks_accepted = 2
    /\ pc = "tick"
    /\ requests = <<lab.tracked>>
    /\ result = Ok(1)

AltCalled == lab.phase = "alt" /\ lab.call # None

\* the receipt of the call, when the artifact holds one with a claim
AltHasClaim ==
    /\ lab.call[2].receipt_bytes.body # Garbage
    /\ lab.call[2].receipt_bytes.body.claim # None

AltClaim == lab.call[2].receipt_bytes.body.claim[2]

AltMatches == hex_0x(AltClaim.pre_state_digest) = lab.call[2].expected_image_id

AltPermitted ==
    \/ allowed_image_ids = <<>>
    \/ \E i \in 1..Len(allowed_image_ids) :
          allowed_image_ids[i] = hex_0x(AltClaim.pre_state_digest)

AltSealValid == lab.call[2].receipt_bytes.body.seal_valid

\* C33: verify_receipt gives is_valid = true only when the identity of the
\* claim equals the expected one, is in the allow-list or the list is empty,
\* the seal verifies and the exit code is 0; when one of the four fails the
\* call returns Ok with is_valid = false and a failure reason, not an error.
C33_ValidOnlyWhenAllFourHold ==
    AltCalled =>
        LET out == lab.call[2].out IN
        /\ (out.ok /\ out.value.is_valid) =>
              /\ AltHasClaim
              /\ AltMatches /\ AltPermitted /\ AltSealValid
              /\ AltClaim.exit_code = 0
              /\ out.value.error_message = None
        /\ (/\ AltHasClaim
            /\ ~ (/\ AltMatches /\ AltPermitted /\ AltSealValid
                  /\ AltClaim.exit_code = 0)) =>
              /\ out.ok
              /\ ~ out.value.is_valid
              /\ out.value.error_message # None

\* a sealed receipt of a listed identity whose guest exited with 1
C33_Witness ==
    /\ AltCalled
    /\ allowed_image_ids = <<S_0xabce, S_0xabcd>>
    /\ AltHasClaim /\ AltMatches /\ AltPermitted /\ AltSealValid
    /\ AltClaim.exit_code = 1
    /\ lab.call[2].out.ok
    /\ ~ lab.call[2].out.value.is_valid
    /\ lab.call[2].out.value.image_id = S_0xabcd

====
